---- MODULE Spec2Model ----
(***************************************************************************)
(* Model of project1_job_application_assistant.py: three prompt -> LLM ->  *)
(* parser chains (JobDescriptionAnalyzer, ResumeSuggestionGenerator,       *)
(* CoverLetterGenerator) and the demonstration driver main().              *)
(*                                                                         *)
(* A Python str is a sequence of tokens; a token is an indivisible piece   *)
(* of text (a word, a digit, a separator).  A text returned by the         *)
(* generation service is abstracted to its form (bare JSON, JSON in a      *)
(* markdown fence, or prose without JSON) and, per schema key, the JSON    *)
(* value it carries.                                                       *)
(***************************************************************************)
EXTENDS Integers, Sequences, FiniteSets, TLC

\* ------------------------------------------------------------------------
\* Bounds
\* ------------------------------------------------------------------------
\* longest list of required skills a returned text carries
MaxList == 2
\* component calls a client of the module makes
MaxCalls == 2

\* ------------------------------------------------------------------------
\* Strings
\* ------------------------------------------------------------------------
Digit == <<"0", "1", "2", "3", "4", "5", "6", "7", "8", "9">>

RECURSIVE NatToStr(_)
NatToStr(n) ==
    IF n < 10 THEN <<Digit[n + 1]>>
    ELSE NatToStr(n \div 10) \o <<Digit[(n % 10) + 1]>>

\* str(n) of a Python int
IntToStr(n) == IF n < 0 THEN <<"-">> \o NatToStr(-n) ELSE NatToStr(n)

IsDigit(t) == \E d \in 1..10 : Digit[d] = t

DigitVal(t) == (CHOOSE d \in 1..10 : Digit[d] = t) - 1

RECURSIVE DigitsToNat(_)
DigitsToNat(s) ==
    IF Len(s) = 0 THEN 0
    ELSE 10 * DigitsToNat(SubSeq(s, 1, Len(s) - 1)) + DigitVal(s[Len(s)])

\* the text is an optional sign followed by at least one digit
IsNumeric(s) ==
    LET body == IF Len(s) > 0 /\ s[1] = "-" THEN Tail(s) ELSE s
    IN  Len(body) > 0 /\ \A i \in 1..Len(body) : IsDigit(body[i])

\* int(s) of a numeric text
StrToInt(s) ==
    IF s[1] = "-" THEN 0 - DigitsToNat(Tail(s)) ELSE DigitsToNat(s)

RECURSIVE Join(_, _)
\* sep.join(items) of a list of str
Join(sep, items) ==
    IF Len(items) = 0 THEN <<>>
    ELSE IF Len(items) = 1 THEN items[1]
    ELSE items[1] \o sep \o Join(sep, Tail(items))

CommaSpace == <<", ">>

\* sub occurs in s as a contiguous piece
Contains(s, sub) ==
    \E i \in 1..(Len(s) + 1) :
        /\ i + Len(sub) - 1 <= Len(s)
        /\ SubSeq(s, i, i + Len(sub) - 1) = sub

\* every sequence over S of length at most n
SeqsUpTo(S, n) == UNION {[1..k -> S] : k \in 0..n}

\* ------------------------------------------------------------------------
\* JSON values carried by a returned text
\* ------------------------------------------------------------------------
\* the key does not occur in the object
JAbsent == [k |-> "absent", n |-> 0, s |-> <<>>, l |-> <<>>]
JNull == [k |-> "null", n |-> 0, s |-> <<>>, l |-> <<>>]
JInt(i) == [k |-> "int", n |-> i, s |-> <<>>, l |-> <<>>]
\* the number i + 0.5
JFloat(i) == [k |-> "float", n |-> i, s |-> <<>>, l |-> <<>>]
JStr(t) == [k |-> "str", n |-> 0, s |-> t, l |-> <<>>]
JList(items) == [k |-> "list", n |-> 0, s |-> <<>>, l |-> items]

\* value of a key of a JSON object, JAbsent when the object lacks it
Field(obj, key) == IF key \in DOMAIN obj THEN obj[key] ELSE JAbsent

Fail == [ok |-> FALSE, n |-> 0, s |-> <<>>, l |-> <<>>]
OkInt(i) == [ok |-> TRUE, n |-> i, s |-> <<>>, l |-> <<>>]
OkStr(t) == [ok |-> TRUE, n |-> 0, s |-> t, l |-> <<>>]
OkList(items) == [ok |-> TRUE, n |-> 0, s |-> <<>>, l |-> items]

\* pydantic validation of a field annotated str; pydantic 1 converts a
\* number to its text, pydantic 2 rejects it
ValidateStr(v, major) ==
    IF v.k = "str" THEN OkStr(v.s)
    ELSE IF v.k = "int" /\ major = 1 THEN OkStr(IntToStr(v.n))
    ELSE Fail

\* ValidateInt that fills in 0 where the value is no number
ValidateIntDefault(v, major) ==
    IF v.k = "int" THEN OkInt(v.n)
    ELSE IF v.k = "str" /\ IsNumeric(v.s) THEN OkInt(StrToInt(v.s))
    ELSE IF v.k = "float" /\ major = 1 THEN OkInt(v.n)
    ELSE OkInt(0)

\* pydantic validation of a field annotated int: an int is taken as it is,
\* a numeric text is converted, a number with a fractional part is truncated
\* by pydantic 1 and rejected by pydantic 2, anything else is rejected
ValidateInt(v, major) ==
    IF v.k = "int" THEN OkInt(v.n)
    ELSE IF v.k = "str" /\ IsNumeric(v.s) THEN OkInt(StrToInt(v.s))
    ELSE IF v.k = "float" /\ major = 1 THEN OkInt(v.n)
    ELSE Fail

Reverse(items) == [i \in 1..Len(items) |-> items[Len(items) + 1 - i]]

\* ValidateList that does not keep the order of the elements
ValidateListReversed(v) ==
    IF v.k = "list" THEN OkList(Reverse(v.l)) ELSE Fail

\* pydantic validation of a field annotated List[str]
ValidateList(v) == IF v.k = "list" THEN OkList(v.l) ELSE Fail

\* no record
None == [none |-> TRUE]

\* JobDetails(**obj): all five fields are required (Field(...))
JobDetails(obj, major) ==
    LET t  == ValidateStr(Field(obj, "job_title"), major)
        rs == ValidateList(Field(obj, "required_skills"))
        e  == ValidateInt(Field(obj, "experience_required"), major)
        tl == ValidateList(Field(obj, "tools"))
        ss == ValidateList(Field(obj, "soft_skills"))
    IN  IF t.ok /\ rs.ok /\ e.ok /\ tl.ok /\ ss.ok
        THEN [ok |-> TRUE,
              value |-> [job_title |-> t.s,
                         required_skills |-> rs.l,
                         experience_required |-> e.n,
                         tools |-> tl.l,
                         soft_skills |-> ss.l]]
        ELSE [ok |-> FALSE, value |-> None]

\* ResumeSuggestions(**obj): all three fields are required
ResumeSuggestions(obj, major) ==
    LET ms == ValidateList(Field(obj, "missing_skills"))
        ip == ValidateList(Field(obj, "improvement_points"))
        fs == ValidateStr(Field(obj, "overall_fit_summary"), major)
    IN  IF ms.ok /\ ip.ok /\ fs.ok
        THEN [ok |-> TRUE,
              value |-> [missing_skills |-> ms.l,
                         improvement_points |-> ip.l,
                         overall_fit_summary |-> fs.s]]
        ELSE [ok |-> FALSE, value |-> None]

\* ------------------------------------------------------------------------
\* Output parsers
\* ------------------------------------------------------------------------
\* a text of the generation service: form is "bare" (the text is a JSON
\* object), "fenced" (a JSON object inside a markdown fence, prose around
\* it) or "prose" (no JSON in it); words is the prose, obj the JSON object
Text(form, words, obj) == [form |-> form, words |-> words, obj |-> obj]

NoObj == [x \in {} |-> JAbsent]

\* PydanticOutputParser(pydantic_object = JobDetails).parse
JobDetailsParser(text, major) ==
    IF text.form = "prose" THEN [ok |-> FALSE, value |-> None]
    ELSE JobDetails(text.obj, major)

\* PydanticOutputParser(pydantic_object = ResumeSuggestions).parse
ResumeSuggestionsParser(text, major) ==
    IF text.form = "prose" THEN [ok |-> FALSE, value |-> None]
    ELSE ResumeSuggestions(text.obj, major)

\* StrOutputParser that expects JSON in the text
StrOutputParserJson(text) ==
    IF text.form = "prose" THEN [ok |-> FALSE, value |-> None]
    ELSE [ok |-> TRUE, value |-> text]

\* StrOutputParser().parse
StrOutputParser(text) == [ok |-> TRUE, value |-> text]

\* ------------------------------------------------------------------------
\* Prompts
\* ------------------------------------------------------------------------
FormatInstructions(schema) == <<"format_instructions", schema>>

\* JobDescriptionAnalyzer._setup_prompt, filled by analyze
AnalyzerPrompt(job_description) ==
    <<"Analyze the following job description and extract structured information.",
      "Job Description:">>
    \o job_description
    \o FormatInstructions("JobDetails")
    \o <<"Provide the extracted information in the specified JSON format.">>

\* SuggestionPrompt that joins the lists with "," and no space
SuggestionPromptComma(job_details, current_resume) ==
    <<"Based on the job requirements and current resume, generate improvement suggestions.",
      "Job Requirements:", "- Title: ">>
    \o job_details.job_title
    \o <<"- Skills needed: ">>
    \o Join(<<",">>, job_details.required_skills)
    \o <<"- Experience: ">>
    \o IntToStr(job_details.experience_required)
    \o <<" years", "- Tools: ">>
    \o Join(<<",">>, job_details.tools)
    \o <<"Current Resume:">>
    \o current_resume
    \o FormatInstructions("ResumeSuggestions")
    \o <<"Provide structured suggestions to improve the resume for this job position.">>

\* ResumeSuggestionGenerator._setup_prompt, filled by generate_suggestions
SuggestionPrompt(job_details, current_resume) ==
    <<"Based on the job requirements and current resume, generate improvement suggestions.",
      "Job Requirements:", "- Title: ">>
    \o job_details.job_title
    \o <<"- Skills needed: ">>
    \o Join(CommaSpace, job_details.required_skills)
    \o <<"- Experience: ">>
    \o IntToStr(job_details.experience_required)
    \o <<" years", "- Tools: ">>
    \o Join(CommaSpace, job_details.tools)
    \o <<"Current Resume:">>
    \o current_resume
    \o FormatInstructions("ResumeSuggestions")
    \o <<"Provide structured suggestions to improve the resume for this job position.">>

\* CoverLetterGenerator._setup_prompt, filled by generate
CoverLetterPrompt(candidate_name, job_title, company_name, key_achievements, job_requirements) ==
    <<"Write a professional cover letter for the following position:",
      "Candidate Name: ">>
    \o candidate_name
    \o <<"Job Title: ">>
    \o job_title
    \o <<"Company: ">>
    \o company_name
    \o <<"Key Achievements:">>
    \o key_achievements
    \o <<"Job Requirements:">>
    \o job_requirements
    \o <<"Instructions:", "- Write a compelling cover letter (300-400 words)",
         "- Highlight relevant experience",
         "- Match key requirements from job description",
         "- Use professional tone",
         "- Include specific examples from achievements",
         "- Output only the cover letter text, no JSON or formatting markers",
         "Cover Letter:">>

\* ------------------------------------------------------------------------
\* Inputs
\* ------------------------------------------------------------------------
\* job_description of main
SampleJobDescription ==
    <<"Senior Python Developer",
      "We are looking for a Senior Python Developer with 5+ years of experience.",
      "Required Skills:", "- Python (Django, FastAPI, Flask)",
      "- PostgreSQL and Redis", "- Docker and Kubernetes",
      "- AWS (EC2, S3, Lambda)", "- RESTful API design",
      "Responsibilities:", "Soft Skills:", "- Strong communication",
      "- Team player", "- Problem-solving", "- Leadership experience">>

\* sample_resume of main
SampleResume ==
    <<"JOHN DOE", "EXPERIENCE:", "Python Developer at Tech Corp (3 years)",
      "Junior Developer at Startup (2 years)", "SKILLS:",
      "- Python, JavaScript", "- Flask, Django", "- MySQL", "- Git">>

\* arguments of cover_letter_gen.generate in main
SampleLetterArgs ==
    [candidate_name |-> <<"John Doe">>,
     job_title |-> <<"Senior Python Developer">>,
     company_name |-> <<"Tech Corp">>,
     key_achievements |->
        <<"- Led development of 3 REST APIs serving 100K+ users",
          "- Optimized database queries reducing response time by 40%",
          "- Mentored 2 junior developers",
          "- Implemented CI/CD pipelines using Docker">>,
     job_requirements |->
        <<"Python, Django, FastAPI, PostgreSQL, Redis, Docker, AWS">>]

Titles == {<<"Senior Python Developer">>, <<"Data Engineer">>}
SkillNames == {<<"Python">>, <<"PostgreSQL">>}
ToolLists == {<<>>, <<<<"Docker">>>>, <<<<"Docker">>, <<"Git">>>>}
SoftLists == {<<>>, <<<<"Leadership">>>>}
MissingLists == {<<>>, <<<<"Kubernetes">>>>}
PointLists == {<<>>, <<<<"Quantify impact">>>>}
Years == {-1, 0, 5, 12}

JobDescriptions == {SampleJobDescription, <<"Data Engineer", "3 years of SQL">>, <<>>}
Resumes == {SampleResume, <<"JANE ROE", "SQL">>}
Achievements == {SampleLetterArgs.key_achievements, <<"Shipped a compiler">>}
Requirements == {SampleLetterArgs.job_requirements, <<"SQL">>}

\* the JobDetails records a client hands to generate_suggestions
JobDetailsRecords ==
    [job_title : Titles,
     required_skills : SeqsUpTo(SkillNames, MaxList),
     experience_required : Years,
     tools : {<<<<"Docker">>>>, <<<<"Docker">>, <<"Git">>>>},
     soft_skills : {<<<<"Leadership">>>>}]

SampleJobDetails ==
    [job_title |-> <<"Senior Python Developer">>,
     required_skills |-> <<<<"Python">>, <<"PostgreSQL">>>>,
     experience_required |-> 5,
     tools |-> <<<<"Docker">>>>,
     soft_skills |-> <<<<"Leadership">>>>]

\* the arguments a client calls generate_suggestions with
SuggestionArgs ==
    {<<d, SampleResume>> : d \in JobDetailsRecords}
    \cup {<<SampleJobDetails, r>> : r \in Resumes}

\* ------------------------------------------------------------------------
\* Texts the generation service can return
\* ------------------------------------------------------------------------
TitleVals == {JAbsent, JInt(7), JStr(<<"Senior Python Developer">>)}
SkillVals ==
    {JAbsent, JStr(<<"Python">>)}
    \cup {JList(l) : l \in SeqsUpTo(SkillNames, MaxList)}
ExpVals ==
    {JAbsent, JNull, JFloat(5), JStr(<<"five">>), JStr(<<"5">>),
     JStr(<<"-", "1">>), JList(<<>>)}
    \cup {JInt(i) : i \in Years}
ToolVals == {JAbsent} \cup {JList(l) : l \in ToolLists}
SoftVals == {JAbsent} \cup {JList(l) : l \in SoftLists}

JobDetailsObjs ==
    [job_title : TitleVals, required_skills : SkillVals,
     experience_required : ExpVals, tools : ToolVals, soft_skills : SoftVals]

MissingVals == {JAbsent} \cup {JList(l) : l \in MissingLists}
PointVals == {JAbsent, JNull} \cup {JList(l) : l \in PointLists}
FitVals == {JAbsent, JInt(70), JStr(<<"70%">>)}

ResumeSuggestionsObjs ==
    [missing_skills : MissingVals, improvement_points : PointVals,
     overall_fit_summary : FitVals]

Apology == <<"I cannot help with that.">>
Letter == <<"Dear Hiring Manager,", "Sincerely,", "John Doe">>

ProseTexts == {Text("prose", w, NoObj) : w \in {<<>>, Apology, Letter}}

Bare(o) == Text("bare", <<>>, o)
Fenced(o) == Text("fenced", <<"Here is the JSON:">>, o)

SampleJobDetailsObj ==
    [job_title |-> JStr(<<"Senior Python Developer">>),
     required_skills |-> JList(<<<<"Python">>, <<"PostgreSQL">>>>),
     experience_required |-> JInt(5),
     tools |-> JList(<<<<"Docker">>>>),
     soft_skills |-> JList(<<<<"Leadership">>>>)]

SampleSuggestionsObj ==
    [missing_skills |-> JList(<<<<"Kubernetes">>>>),
     improvement_points |-> JList(<<<<"Quantify impact">>>>),
     overall_fit_summary |-> JStr(<<"70%">>)]

SampleTexts ==
    {Bare(SampleJobDetailsObj), Fenced(SampleJobDetailsObj),
     Fenced(SampleSuggestionsObj),
     Fenced([SampleJobDetailsObj EXCEPT !.experience_required = JAbsent]),
     Fenced([SampleSuggestionsObj EXCEPT !.improvement_points = JNull])}

\* texts the service answers a prompt of the component with: every
\* combination of field values when main runs, the sample texts when a
\* client calls the component with its own arguments
LetterTexts ==
    {Text("prose", <<>>, NoObj), Text("prose", Letter, NoObj),
     Fenced(SampleSuggestionsObj)}
ClientTexts == {Text("prose", Apology, NoObj)} \cup SampleTexts
MainAnalyzeTexts ==
    ProseTexts \cup SampleTexts \cup {Bare(o) : o \in JobDetailsObjs}
MainSuggestionTexts ==
    ProseTexts \cup SampleTexts \cup {Bare(o) : o \in ResumeSuggestionsObjs}

Texts(comp, m) ==
    IF comp = "generate" THEN LetterTexts
    ELSE IF m = "lib" THEN ClientTexts
    ELSE IF comp = "analyze" THEN MainAnalyzeTexts
    ELSE MainSuggestionTexts

\* ------------------------------------------------------------------------
\* State
\* ------------------------------------------------------------------------
VARIABLES
    mode,            \* "main": run as a script; "lib": imported by a client
    pydantic_major,  \* major version of the installed pydantic
    pc,              \* position of main
    inflight,        \* component whose chain waits for the service
    args,            \* arguments of the component call
    prompt,          \* prompt the chain submitted to the service
    attempts,        \* service invocations made by the component call
    llm_log,         \* components that invoked the service, in order
    response,        \* what the service answered the component call
    result,          \* how the component call ended
    outcomes,        \* main: how each pipeline ended, in order
    job_details,     \* local of main
    suggestions,     \* local of main
    cover_letter,    \* local of main
    out,             \* lines main printed
    ncalls           \* component calls the client made

vars ==
    <<mode, pydantic_major, pc, inflight, args, prompt, attempts, llm_log,
      response, result, outcomes, job_details, suggestions, cover_letter,
      out, ncalls>>

Components == {"analyze", "generate_suggestions", "generate"}

NoResponse == [raised |-> FALSE, text |-> None]
NoResult == [comp |-> "none", status |-> "none", value |-> None]

Init ==
    /\ mode \in {"main", "lib"}
    /\ pydantic_major \in {1, 2}
    /\ pc = IF mode = "main" THEN "feature1" ELSE "imported"
    /\ inflight = "none"
    /\ args = None
    /\ prompt = <<>>
    /\ attempts = 0
    /\ llm_log = <<>>
    /\ response = NoResponse
    /\ result = NoResult
    /\ outcomes = <<>>
    /\ job_details = None
    /\ suggestions = None
    /\ cover_letter = None
    /\ out = <<>>
    /\ ncalls = 0

\* ------------------------------------------------------------------------
\* Chains: prompt | llm | output_parser
\* ------------------------------------------------------------------------
\* LlmStep that invokes the service a second time
LlmStepTwice(log, comp) == Append(Append(log, comp), comp)

\* chain.invoke runs the llm step of the chain
LlmStep(log, comp) == Append(log, comp)

\* ServiceFault reported as a failure of the parser
ServiceFaultAsParse == [status |-> "ParseValidationError", value |-> None]

\* a failure of the llm step ends chain.invoke with that failure
ServiceFault == [status |-> "GenerationError", value |-> None]

\* the parser step of the chain
ParserStep(parsed) ==
    IF parsed.ok THEN [status |-> "ok", value |-> parsed.value]
    ELSE [status |-> "ParseValidationError", value |-> None]

\* JobDescriptionAnalyzer.analyze, from the answer of the service on
analyze(text, major) == ParserStep(JobDetailsParser(text, major))

\* ResumeSuggestionGenerator.generate_suggestions, from the answer on
generate_suggestions(text, major) ==
    ParserStep(ResumeSuggestionsParser(text, major))

\* CoverLetterGenerator.generate, from the answer of the service on
generate(text) == ParserStep(StrOutputParser(text))

\* the component renders its prompt and submits it to the service
Submit(comp, a, p) ==
    /\ inflight = "none"
    /\ inflight' = comp
    /\ args' = a
    /\ prompt' = p
    /\ llm_log' = LlmStep(llm_log, comp)
    /\ attempts' = Len(llm_log') - Len(llm_log)
    /\ response' = NoResponse
    /\ result' = NoResult

SubmitAnalyze(job_description) ==
    Submit("analyze", [job_description |-> job_description],
           AnalyzerPrompt(job_description))

SubmitSuggestions(details, current_resume) ==
    Submit("generate_suggestions",
           [job_details |-> details, current_resume |-> current_resume],
           SuggestionPrompt(details, current_resume))

SubmitGenerate(a) ==
    Submit("generate", a,
           CoverLetterPrompt(a.candidate_name, a.job_title, a.company_name,
                             a.key_achievements, a.job_requirements))

\* how the component call in flight ends when the service returns text
Finish(comp, text, major) ==
    IF comp = "analyze" THEN analyze(text, major)
    ELSE IF comp = "generate_suggestions" THEN generate_suggestions(text, major)
    ELSE generate(text)

Ended(comp, r) == [comp |-> comp, status |-> r.status, value |-> r.value]

Returned(r) ==
    /\ result' = Ended(inflight, r)
    /\ outcomes' = IF mode = "main"
                   THEN Append(outcomes, [comp |-> inflight, status |-> r.status])
                   ELSE outcomes
    /\ inflight' = "none"
    /\ UNCHANGED <<mode, pydantic_major, pc, args, prompt, attempts, llm_log,
                   job_details, suggestions, cover_letter, out, ncalls>>

\* the service returns a text; the parser step runs and the call returns
LLMReturns ==
    /\ inflight \in Components
    /\ \E text \in Texts(inflight, mode) :
        /\ response' = [raised |-> FALSE, text |-> text]
        /\ Returned(Finish(inflight, text, pydantic_major))

\* the service faults; the call raises
LLMRaises ==
    /\ inflight \in Components
    /\ response' = [raised |-> TRUE, text |-> None]
    /\ Returned(ServiceFault)

\* ------------------------------------------------------------------------
\* main
\* ------------------------------------------------------------------------
Pipelines == <<"analyze", "generate_suggestions", "generate">>

\* ErrorName with the message of the first except block in all three
ErrorNameCopied(k) == "Job Description Analyzer"

ErrorName(k) ==
    <<"Job Description Analyzer", "Resume Suggestion Generator",
      "Cover Letter Generator">>[k]

Header(k) == <<"header", k>>
Shown(k) == <<"result", k>>
ErrorLine(k) == <<"error", ErrorName(k)>>
Title == <<"title", 0>>
Banner == <<"banner", 0>>

Waiting(k) == <<"wait1", "wait2", "wait3">>[k]

\* AfterTry that returns after the third pipeline without the banner
AfterTryNoBanner(k) == <<"feature2", "feature3", "done">>[k]

\* where main goes after the try block of pipeline k succeeded
AfterTry(k) == <<"feature2", "feature3", "banner">>[k]

\* AfterExcept whose second except block does not return
AfterExceptNoReturn(k) == IF k = 2 THEN "feature3" ELSE "done"

\* the except block of pipeline k: print the error and return
AfterExcept(k) == "done"

\* the try block of pipeline k up to the call of the service
Begin(k) ==
    /\ mode = "main"
    /\ pc = <<"feature1", "feature2", "feature3">>[k]
    /\ pc' = Waiting(k)
    /\ out' = out \o (IF k = 1 THEN <<Title>> ELSE <<>>) \o <<Header(k)>>
    /\ UNCHANGED <<mode, pydantic_major, outcomes, job_details, suggestions,
                   cover_letter, ncalls>>

Feature1Begin == Begin(1) /\ SubmitAnalyze(SampleJobDescription)

Feature2Begin == Begin(2) /\ SubmitSuggestions(job_details, SampleResume)

Feature3Begin == Begin(3) /\ SubmitGenerate(SampleLetterArgs)

\* the rest of the try block of pipeline k, or its except block
End(k) ==
    /\ mode = "main"
    /\ pc = Waiting(k)
    /\ inflight = "none"
    /\ IF result.status = "ok"
       THEN /\ out' = Append(out, Shown(k))
            /\ pc' = AfterTry(k)
            /\ job_details' = IF k = 1 THEN result.value ELSE job_details
            /\ suggestions' = IF k = 2 THEN result.value ELSE suggestions
            /\ cover_letter' = IF k = 3 THEN result.value ELSE cover_letter
       ELSE /\ out' = Append(out, ErrorLine(k))
            /\ pc' = AfterExcept(k)
            /\ UNCHANGED <<job_details, suggestions, cover_letter>>
    /\ UNCHANGED <<mode, pydantic_major, inflight, args, prompt, attempts,
                   llm_log, response, result, outcomes, ncalls>>

Feature1End == End(1)

Feature2End == End(2)

Feature3End == End(3)

\* the success banner after the three try blocks
PrintBanner ==
    /\ mode = "main"
    /\ pc = "banner"
    /\ out' = Append(out, Banner)
    /\ pc' = "done"
    /\ UNCHANGED <<mode, pydantic_major, inflight, args, prompt, attempts,
                   llm_log, response, result, outcomes, job_details,
                   suggestions, cover_letter, ncalls>>

\* ------------------------------------------------------------------------
\* A client that imported the module calls the components
\* ------------------------------------------------------------------------
Client ==
    /\ mode = "lib"
    /\ ncalls < MaxCalls
    /\ ncalls' = ncalls + 1
    /\ UNCHANGED <<mode, pydantic_major, pc, outcomes, job_details,
                   suggestions, cover_letter, out>>

CallAnalyze == Client /\ \E jd \in JobDescriptions : SubmitAnalyze(jd)

CallGenerateSuggestions ==
    Client /\ \E a \in SuggestionArgs : SubmitSuggestions(a[1], a[2])

CallGenerate ==
    Client /\ \E ka \in Achievements, jr \in Requirements :
        SubmitGenerate([SampleLetterArgs EXCEPT !.key_achievements = ka,
                                                !.job_requirements = jr])

Next ==
    \/ Feature1Begin
    \/ Feature1End
    \/ Feature2Begin
    \/ Feature2End
    \/ Feature3Begin
    \/ Feature3End
    \/ PrintBanner
    \/ LLMReturns
    \/ LLMRaises
    \/ CallAnalyze
    \/ CallGenerateSuggestions
    \/ CallGenerate

Spec == Init /\ [][Next]_vars

\* the module run as a script
MainInit == Init /\ mode = "main"

MainNext ==
    \/ Feature1Begin
    \/ Feature1End
    \/ Feature2Begin
    \/ Feature2End
    \/ Feature3Begin
    \/ Feature3End
    \/ PrintBanner
    \/ LLMReturns
    \/ LLMRaises

\* main is a sequential program that runs on while it can, and the service
\* answers every call (it returns a text or faults)
FairSpec == MainInit /\ [][MainNext]_vars /\ WF_vars(MainNext)

\* ------------------------------------------------------------------------
\* Properties
\* ------------------------------------------------------------------------
Failed(status) == status \in {"GenerationError", "ParseValidationError"}

HasLine(line) == \E i \in 1..Len(out) : out[i] = line

\* C1: main runs the pipelines in the order analyzer, suggestion generator,
\* cover-letter generator; the service is invoked for a pipeline only after
\* every earlier pipeline ended successfully, and never for a pipeline after
\* one that failed.
C1_ReportAndStop ==
    mode = "main" =>
        /\ Len(llm_log) <= 3
        /\ Len(outcomes) <= Len(llm_log)
        /\ \A i \in 1..Len(llm_log) :
            /\ llm_log[i] = Pipelines[i]
            /\ \A j \in 1..(i - 1) :
                /\ j <= Len(outcomes)
                /\ outcomes[j].comp = Pipelines[j]
                /\ outcomes[j].status = "ok"
        /\ \A j \in 1..Len(outcomes) :
            Failed(outcomes[j].status) => Len(llm_log) = j

C1_Witness ==
    /\ mode = "main"
    /\ pc = "done"
    /\ Len(outcomes) = 2
    /\ outcomes[1].status = "ok"
    /\ outcomes[2].status = "GenerationError"
    /\ llm_log = <<"analyze", "generate_suggestions">>

\* C2: every call of analyze, generate_suggestions or generate invokes the
\* service exactly once, whether the service returns a text that parses,
\* returns a text that does not parse, or faults; a run of main invokes it
\* at most three times and at most once per pipeline.
C2_SingleAttempt ==
    /\ (inflight \in Components \/ result.comp \in Components) => attempts = 1
    /\ mode = "lib" => Len(llm_log) = ncalls
    /\ mode = "main" =>
        /\ Len(llm_log) <= 3
        /\ \A i, j \in 1..Len(llm_log) : llm_log[i] = llm_log[j] => i = j

C2_Witness ==
    /\ mode = "main"
    /\ result.comp = "generate_suggestions"
    /\ result.status = "ParseValidationError"
    /\ attempts = 1
    /\ llm_log = <<"analyze", "generate_suggestions">>

\* C3: when the service faults, the component call fails with
\* GenerationError and has no result value, for each of the three
\* components.
C3_FaultPropagates ==
    (result.comp \in Components /\ response.raised) =>
        /\ result.status = "GenerationError"
        /\ result.value = None

C3_Witness ==
    /\ result.comp = "generate"
    /\ response.raised
    /\ result.status = "GenerationError"

JobDetailsKeys ==
    {"job_title", "required_skills", "experience_required", "tools",
     "soft_skills"}

ListKeys == {"required_skills", "tools", "soft_skills"}

\* the value is neither a number nor the text of a number
NonNumeric(v) ==
    /\ v.k \notin {"int", "float"}
    /\ ~(v.k = "str" /\ IsNumeric(v.s))

\* the text has no JSON in it, or lacks a mandatory field, or carries a
\* non-numeric experience_required or something else than a list in a list
\* field
Defective(text) ==
    \/ text.form = "prose"
    \/ \E key \in JobDetailsKeys : Field(text.obj, key).k = "absent"
    \/ NonNumeric(Field(text.obj, "experience_required"))
    \/ \E key \in ListKeys : Field(text.obj, key).k # "list"

C5_NonNegativeExperience ==
    (result.comp = "analyze" /\ result.status = "ok") =>
        result.value.experience_required >= 0

\* the text carries a JSON object whose five fields have the types of the
\* schema
WellFormed(text) ==
    /\ text.form \in {"bare", "fenced"}
    /\ DOMAIN text.obj = JobDetailsKeys
    /\ text.obj.job_title.k = "str"
    /\ text.obj.experience_required.k = "int"
    /\ \A key \in ListKeys : text.obj[key].k = "list"

\* C6: parsing a well-formed text that matches the JobDetails schema
\* succeeds with a record whose five fields equal the values in the text,
\* lists in the order of the text.
C6_RoundTrip ==
    (/\ result.comp = "analyze"
     /\ ~response.raised
     /\ WellFormed(response.text)) =>
        /\ result.status = "ok"
        /\ result.value.job_title = response.text.obj.job_title.s
        /\ result.value.required_skills = response.text.obj.required_skills.l
        /\ result.value.experience_required
            = response.text.obj.experience_required.n
        /\ result.value.tools = response.text.obj.tools.l
        /\ result.value.soft_skills = response.text.obj.soft_skills.l

C6_Witness ==
    /\ result.comp = "analyze"
    /\ response.text = Fenced(SampleJobDetailsObj)
    /\ result.status = "ok"
    /\ result.value.required_skills = <<<<"Python">>, <<"PostgreSQL">>>>
    /\ result.value.experience_required = 5

\* C7: for non-empty achievements and requirements, generate returns the
\* text of the service unchanged whatever that text is; it fails only with
\* GenerationError, when the service faults.
C7_LetterPassthrough ==
    (/\ result.comp = "generate"
     /\ args.key_achievements # <<>>
     /\ args.job_requirements # <<>>) =>
        /\ result.status # "ParseValidationError"
        /\ response.raised => result.status = "GenerationError"
        /\ ~response.raised =>
            (result.status = "ok" /\ result.value = response.text)

C7_Witness ==
    /\ result.comp = "generate"
    /\ args.key_achievements = <<"Shipped a compiler">>
    /\ response.text = Text("prose", <<>>, NoObj)
    /\ result.status = "ok"
    /\ result.value = response.text

AllSucceeded ==
    /\ Len(outcomes) = 3
    /\ \A i \in 1..3 : outcomes[i].status = "ok"

\* C8: main prints the success banner exactly when all three pipelines
\* ended without a failure; after a failure it returns without the banner,
\* otherwise the banner is the last line it prints.
C8_BannerIffSuccess ==
    mode = "main" =>
        /\ HasLine(Banner) =>
            (AllSucceeded /\ pc = "done" /\ out[Len(out)] = Banner)
        /\ pc = "done" => (HasLine(Banner) <=> AllSucceeded)
        /\ (\E i \in 1..Len(outcomes) : Failed(outcomes[i].status)) =>
            ~HasLine(Banner)

C8_Witness ==
    /\ mode = "main"
    /\ pc = "done"
    /\ AllSucceeded
    /\ out[Len(out)] = Banner

\* the items, each one token long, with ", " between neighbours
Interleaved(items) ==
    [i \in 1..(IF Len(items) = 0 THEN 0 ELSE 2 * Len(items) - 1) |->
        IF i % 2 = 1 THEN items[(i + 1) \div 2][1] ELSE ", "]

ExampleRecord(d) ==
    /\ d.job_title = <<"Senior Python Developer">>
    /\ d.required_skills = <<<<"Python">>, <<"PostgreSQL">>>>
    /\ d.experience_required = 5
    /\ d.tools = <<<<"Docker">>>>

\* C9: the prompt generate_suggestions submits contains the job_title of
\* the record, its required_skills joined with ", " in their order, its
\* experience_required, its tools joined with ", " in their order, and the
\* resume.
C9_SuggestionPrompt ==
    (llm_log # <<>> /\ llm_log[Len(llm_log)] = "generate_suggestions") =>
        LET d == args.job_details
        IN  /\ Contains(prompt, d.job_title)
            /\ Contains(prompt, <<"- Skills needed: ">>
                                \o Interleaved(d.required_skills)
                                \o <<"- Experience: ">>)
            /\ Contains(prompt, <<"- Experience: ">>
                                \o IntToStr(d.experience_required))
            /\ Contains(prompt, <<"- Tools: ">> \o Interleaved(d.tools)
                                \o <<"Current Resume:">>)
            /\ Contains(prompt, args.current_resume)
            /\ ExampleRecord(d) =>
                /\ Contains(prompt, <<"Senior Python Developer">>)
                /\ Contains(prompt, <<"Python", ", ", "PostgreSQL">>)
                /\ Contains(prompt, <<"5">>)
                /\ Contains(prompt, <<"Docker">>)

C9_Witness ==
    /\ inflight = "generate_suggestions"
    /\ ExampleRecord(args.job_details)
    /\ Contains(prompt, <<"Python", ", ", "PostgreSQL">>)

ErrorLines == {i \in 1..Len(out) : out[i][1] = "error"}

FirstFailed ==
    CHOOSE i \in 1..Len(outcomes) :
        /\ Failed(outcomes[i].status)
        /\ \A j \in 1..(i - 1) : ~Failed(outcomes[j].status)

ReportedName(comp) ==
    IF comp = "analyze" THEN "Job Description Analyzer"
    ELSE IF comp = "generate_suggestions" THEN "Resume Suggestion Generator"
    ELSE "Cover Letter Generator"

OneErrorForFirstFailure ==
    mode = "main" =>
        /\ Cardinality(ErrorLines) <= 1
        /\ \A i \in ErrorLines :
            /\ \E j \in 1..Len(outcomes) : Failed(outcomes[j].status)
            /\ out[i][2] = ReportedName(outcomes[FirstFailed].comp)
        /\ (pc = "done" /\ \E j \in 1..Len(outcomes) : Failed(outcomes[j].status))
            => Cardinality(ErrorLines) = 1

\* C10: provided the service answers every call, every run of main ends by
\* returning; it reports at most one error, and the error names the first
\* pipeline that failed.
C10_MainReturns ==
    /\ <>(pc = "done")
    /\ []OneErrorForFirstFailure

C10_Witness ==
    /\ mode = "main"
    /\ pc = "done"
    /\ Len(outcomes) = 2
    /\ outcomes[2].status = "ParseValidationError"
    /\ out[Len(out)] = <<"error", "Resume Suggestion Generator">>

====
